---- MODULE Spec2Model ----
(***************************************************************************)
(* Salesforce API proxy (salesforce_api_proxy.py): a Flask application     *)
(* whose five forwarding routes read a JSON payload, validate it, make one *)
(* outbound call with the `requests` library and turn the upstream         *)
(* response, or the transport failure, into a JSON response.               *)
(*                                                                         *)
(* A handler runs in two steps, split where it blocks on the outbound      *)
(* call: Accept (read payload, validate, build and issue the call, or      *)
(* return early) and Reply (the transport returns or raises; the handler   *)
(* builds its response).  Workers handle requests concurrently.            *)
(***************************************************************************)
EXTENDS Integers, Sequences, FiniteSets, TLC

VARIABLES
    pc,        \* pc[w]: "idle", "awaiting" (blocked in the outbound call), "done"
    req,       \* req[w]: the inbound request worker w is handling (as the client sent it)
    frame,     \* frame[w]: the handler's local variables while it is blocked
    calls,     \* calls[w]: the outbound calls the transport recorded for req[w]
    upstream,  \* upstream[w]: what the transport returned or raised for the call
    fault,     \* fault[w]: the exception that reached the handler's outer try, if any
    resp,      \* resp[w]: the response returned to the client
    uncaught   \* uncaught[w]: an exception left the handler (Flask's 500 page answered)

vars == <<pc, req, frame, calls, upstream, fault, resp, uncaught>>

(***************************************************************************)
(* Bounds of the model.                                                    *)
(***************************************************************************)
NumWorkers == 2

Workers == 1..NumWorkers

\* Worker that serves requests one at a time in specification Spec.
SeqWorkers == {1}

(***************************************************************************)
(* Program constants.                                                      *)
(***************************************************************************)
SALESFORCE_API_VERSION == "v58.0"

TIMEOUT == 30

(***************************************************************************)
(* Inbound requests.                                                       *)
(***************************************************************************)
Routes == {"query", "describe", "create", "record", "proxy"}

\* methods=[...] of each @app.route; Flask adds HEAD to a rule that has GET.
RouteMethods(route) ==
    IF route = "record" THEN {"GET", "PATCH", "DELETE", "HEAD", "OPTIONS"}
    ELSE {"POST", "OPTIONS"}

\* Path parameters of the inbound URL.
ObjectName == "Account"

RecordId == "001"

\* A value of the payload that is not a string (a JSON number).
NonString == "<int>"

Credentials == {"abc123", "00Dxx0000001gPL!AR8AQ"}

InstanceUrls == {"https://x.my.salesforce.com"}

ProxyInstanceUrls == {"https://x.my.salesforce.com", "https://x.my.salesforce.com/"}

ProxyMethodValues == {"GET", "POST", "PUT", "PATCH", "DELETE", "post", "TRACE", NonString}

\* The keys a payload of the route may carry, and the values of each key.
PayloadKeys(route) ==
    CASE route = "query"    -> {"query", "instanceUrl", "sessionId"}
      [] route = "describe" -> {"instanceUrl", "sessionId"}
      [] route = "create"   -> {"instanceUrl", "sessionId", "recordData"}
      [] route = "record"   -> {"instanceUrl", "sessionId", "recordData"}
      [] route = "proxy"    -> {"instance_url", "endpoint", "auth_token", "method", "body"}

KeyValues(key) ==
    CASE key = "query"        -> {"SELECT Id FROM Account"}
      [] key = "instanceUrl"  -> InstanceUrls
      [] key = "sessionId"    -> Credentials
      [] key = "recordData"   -> {"{\"Name\":\"Acme\"}"}
      [] key = "instance_url" -> ProxyInstanceUrls
      [] key = "endpoint"     -> {"/services/data/v58.0/limits"}
      [] key = "auth_token"   -> Credentials
      [] key = "method"       -> ProxyMethodValues
      [] key = "body"         -> {"{\"a\":1}"}

EmptyDict == <<>>

RECURSIVE DictsOver(_)
\* Every JSON object whose keys are among `keys`, each key with one of its values.
DictsOver(keys) ==
    IF keys = {} THEN {EmptyDict}
    ELSE LET k == CHOOSE x \in keys : TRUE
             rest == DictsOver(keys \ {k})
         IN  rest \cup {d @@ (k :> v) : d \in rest, v \in KeyValues(k)}

\* What the request body is: a JSON object, JSON null (or no JSON at all, read
\* silently), a JSON scalar, or a body get_json() cannot read.
BodyKinds == {"object", "null", "scalar", "malformed"}

Request(route, method, kind, data) ==
    [route |-> route, method |-> method, kind |-> kind, data |-> data]

NoRequest == Request("none", "none", "null", EmptyDict)

\* The payload of an OPTIONS request is never read.
RequestsOf(route) ==
    {Request(route, "OPTIONS", "null", EmptyDict)}
    \cup {Request(route, m, "object", d) :
            m \in RouteMethods(route) \ {"OPTIONS"}, d \in DictsOver(PayloadKeys(route))}
    \cup {Request(route, m, k, EmptyDict) :
            m \in RouteMethods(route) \ {"OPTIONS"}, k \in BodyKinds \ {"object"}}

AllRequests == UNION {RequestsOf(route) : route \in Routes}

(***************************************************************************)
(* Python values and exceptions.                                           *)
(***************************************************************************)
Exc(cls, msg) == [cls |-> cls, msg |-> msg]

NoExc == Exc("none", "")

\* The classes an exception of class cls is an instance of
\* (requests.exceptions, werkzeug.exceptions and the builtins).
Bases(cls) ==
    CASE cls = "ReadTimeout" ->
            {"ReadTimeout", "Timeout", "RequestException", "Exception"}
      [] cls = "ConnectTimeout" ->
            {"ConnectTimeout", "ConnectionError", "Timeout", "RequestException", "Exception"}
      [] cls = "ProxyError" ->
            {"ProxyError", "ConnectionError", "RequestException", "Exception"}
      [] cls = "ConnectionError" ->
            {"ConnectionError", "RequestException", "Exception"}
      [] cls = "requests.JSONDecodeError" ->
            {"requests.JSONDecodeError", "RequestException", "ValueError", "Exception"}
      [] cls = "json.JSONDecodeError" ->
            {"json.JSONDecodeError", "ValueError", "Exception"}
      [] OTHER -> {cls, "Exception"}

isinstance(exc, cls) == cls \in Bases(exc.cls)

(***************************************************************************)
(* Strings.                                                                *)
(***************************************************************************)
RECURSIVE Join(_, _)
\* sep.join(seq)
Join(seq, sep) ==
    IF Len(seq) = 0 THEN ""
    ELSE IF Len(seq) = 1 THEN seq[1]
    ELSE seq[1] \o sep \o Join(Tail(seq), sep)

RECURSIVE rstrip(_, _)
\* s.rstrip(ch)
rstrip(s, ch) ==
    IF Len(s) > 0 /\ SubSeq(s, Len(s), Len(s)) = ch
    THEN rstrip(SubSeq(s, 1, Len(s) - 1), ch)
    ELSE s

LowerLetters == "abcdefghijklmnopqrstuvwxyz"

UpperLetters == "ABCDEFGHIJKLMNOPQRSTUVWXYZ"

UpperChar(c) ==
    IF \E i \in 1..Len(LowerLetters) : SubSeq(LowerLetters, i, i) = c
    THEN LET i == CHOOSE j \in 1..Len(LowerLetters) : SubSeq(LowerLetters, j, j) = c
         IN  SubSeq(UpperLetters, i, i)
    ELSE c

RECURSIVE upper(_)
\* s.upper()
upper(s) ==
    IF Len(s) = 0 THEN ""
    ELSE UpperChar(SubSeq(s, 1, 1)) \o upper(SubSeq(s, 2, Len(s)))

\* str(n) of an HTTP status code.
StatusText(n) ==
    CASE n = 200 -> "200" [] n = 201 -> "201" [] n = 204 -> "204"
      [] n = 304 -> "304" [] n = 404 -> "404" [] n = 500 -> "500"

(***************************************************************************)
(* JSON.                                                                   *)
(***************************************************************************)
\* Body texts an upstream sends: nothing, an object, an array, not JSON.
EmptyText == ""

ObjectText == "{ \"id\" : \"001\" }"

ArrayText == "[ 1 ]"

HtmlText == "<html>Bad Gateway</html>"

BodyTexts == {EmptyText, ObjectText, ArrayText, HtmlText}

\* A JSON value is named by its compact serialisation.
JsonType(value) ==
    IF value = "{\"id\":\"001\"}" THEN "object"
    ELSE IF value = "[1]" THEN "array"
    ELSE "none"

\* json.loads(text): the value, or a decode error.
json_loads(text) ==
    CASE text = ObjectText -> [ok |-> TRUE, value |-> "{\"id\":\"001\"}"]
      [] text = ArrayText  -> [ok |-> TRUE, value |-> "[1]"]
      [] OTHER             -> [ok |-> FALSE, value |-> ""]

(***************************************************************************)
(* Responses of the proxy.                                                 *)
(***************************************************************************)
EmptyObj == <<>>

\* jsonify(obj), status: a JSON object built by the handler.
jsonify(obj, status) ==
    [status |-> status, form |-> "object", obj |-> obj, json |-> "", text |-> ""]

\* jsonify(result): an upstream JSON value passed through, status 200.
jsonify_value(value) ==
    [status |-> 200, form |-> "value", obj |-> EmptyObj, json |-> value, text |-> ""]

\* return response.text: a plain string, status 200.
text_response(text) ==
    [status |-> 200, form |-> "text", obj |-> EmptyObj, json |-> "", text |-> text]

NoResponse == [status |-> 0, form |-> "none", obj |-> EmptyObj, json |-> "", text |-> ""]

(***************************************************************************)
(* Outbound calls and what the transport gives back.                       *)
(***************************************************************************)
NoParams == <<>>

NoJson == "<no json>"

\* json=None
NoneJson == "None"

Call(method, url, headers, params, json) ==
    [method |-> method, url |-> url, headers |-> headers, params |-> params,
     json |-> json, timeout |-> TIMEOUT]

NoCall == Call("none", "", <<>>, NoParams, NoJson)

UpstreamStatuses == {200, 201, 204, 304, 404, 500}

HttpResponse(status, text) ==
    [tag |-> "response", status_code |-> status, text |-> text, exc |-> NoExc]

TransportError(cls, msg) ==
    [tag |-> "raise", status_code |-> 0, text |-> "", exc |-> Exc(cls, msg)]

NoOutcome == [tag |-> "none", status_code |-> 0, text |-> "", exc |-> NoExc]

TransportErrors ==
    {TransportError("ReadTimeout", "Read timed out. (read timeout=30)"),
     TransportError("ConnectTimeout", "Connection to host timed out"),
     TransportError("ProxyError", "Cannot connect to proxy"),
     TransportError("ConnectionError", "Connection refused"),
     TransportError("LocationParseError", "Failed to parse url")}

AllOutcomes ==
    {HttpResponse(s, t) : s \in UpstreamStatuses, t \in BodyTexts} \cup TransportErrors

\* The class response.json() raises on a body that is not JSON: requests'
\* own JSONDecodeError (requests >= 2.27) or the json module's.
JsonErrorClasses == {"requests.JSONDecodeError", "json.JSONDecodeError"}

(***************************************************************************)
(* Results of a stretch of handler code.                                   *)
(***************************************************************************)
Return(r) == [tag |-> "return", resp |-> r, exc |-> NoExc, call |-> NoCall]

Raise(e) == [tag |-> "raise", resp |-> NoResponse, exc |-> e, call |-> NoCall]

DoCall(c) == [tag |-> "call", resp |-> NoResponse, exc |-> NoExc, call |-> c]

\* No except clause matched: the exception leaves the handler.
Propagate(e) == [tag |-> "propagate", resp |-> NoResponse, exc |-> e, call |-> NoCall]

\* request.get_json()
get_json(q) ==
    CASE q.kind = "object"    -> [raised |-> FALSE, tag |-> "dict", d |-> q.data, exc |-> NoExc]
      [] q.kind = "null"      -> [raised |-> FALSE, tag |-> "None", d |-> EmptyDict, exc |-> NoExc]
      [] q.kind = "scalar"    -> [raised |-> FALSE, tag |-> "scalar", d |-> EmptyDict, exc |-> NoExc]
      [] q.kind = "malformed" -> [raised |-> TRUE, tag |-> "None", d |-> EmptyDict,
                                  exc |-> Exc("BadRequest", "400 Bad Request: Failed to decode JSON object")]

\* not data
Falsy(data) == data.tag = "None" \/ (data.tag = "dict" /\ DOMAIN data.d = {})

\* response.json()
response_json(text, jcls) ==
    LET parsed == json_loads(text)
    IN  IF parsed.ok THEN [raised |-> FALSE, value |-> parsed.value, exc |-> NoExc]
        ELSE [raised |-> TRUE, value |-> "", exc |-> Exc(jcls, "Expecting value: line 1 column 1 (char 0)")]

\* The headers built from a credential fixed once, not from the request's own.
BearerHeaders_stale(credential) ==
    ("Authorization" :> ("Bearer " \o (CHOOSE c \in Credentials : TRUE)))
    @@ ("Content-Type" :> "application/json")
    @@ ("Accept" :> "application/json")

\* headers = {'Authorization': f'Bearer {session_id}', ...}
BearerHeaders(credential) ==
    ("Authorization" :> ("Bearer " \o credential))
    @@ ("Content-Type" :> "application/json")
    @@ ("Accept" :> "application/json")

\* handle_preflight(): the CORS preflight response.
handle_preflight ==
    jsonify("status" :> "ok", 200)

\* @app.errorhandler(500): Flask's answer when an exception leaves a handler.
internal_error ==
    jsonify(("error" :> "Internal server error")
            @@ ("message" :> "Please check the server logs for more details"), 500)

(***************************************************************************)
(* Code the handlers share textually.                                      *)
(***************************************************************************)
\* The non-success branch answering 500 whatever the upstream status.
salesforce_api_error_as_500(response) ==
    jsonify(("error" :> ("Salesforce API error: " \o StatusText(response.status_code)))
            @@ ("details" :> response.text),
            500)

\* The non-success branch of query, describe, create and record operations.
salesforce_api_error(response) ==
    jsonify(("error" :> ("Salesforce API error: " \o StatusText(response.status_code)))
            @@ ("details" :> response.text),
            response.status_code)

\* except requests.exceptions.ProxyError of query and describe.
proxy_error_response(e) ==
    jsonify(("error" :> "External API access restricted")
            @@ ("message" :> "PythonAnywhere free tier doesn't allow external HTTPS requests to Salesforce. You need to upgrade to a paid plan.")
            @@ ("details" :> e.msg)
            @@ ("solution" :> "Upgrade to PythonAnywhere Hacker plan ($5/month) to enable external API calls"),
            403)

\* The inner except requests.exceptions.RequestException of query and describe.
network_error_response(e) ==
    jsonify(("error" :> "Network error") @@ ("message" :> e.msg) @@ ("type" :> e.cls), 500)

\* `key in data` on a value that is no container.
NotIterable == Exc("TypeError", "argument of type 'int' is not iterable")

\* result.get(...) on a JSON value that is no object.
NoGetAttribute == Exc("AttributeError", "'list' object has no attribute 'get'")

KeyError(keys) == Exc("KeyError", CHOOSE k \in keys : TRUE)

(***************************************************************************)
(* POST /api/query                                                         *)
(***************************************************************************)
query_required == {"query", "instanceUrl", "sessionId"}

proxy_query_begin(q) ==
    LET data == get_json(q)
    IN  IF data.raised THEN Raise(data.exc)
        ELSE IF Falsy(data)
        THEN Return(jsonify("error" :> "Missing required fields: query, instanceUrl, sessionId", 400))
        ELSE IF data.tag # "dict" THEN Raise(NotIterable)
        ELSE IF \E k \in query_required : k \notin DOMAIN data.d
        THEN Return(jsonify("error" :> "Missing required fields: query, instanceUrl, sessionId", 400))
        ELSE LET missing == {"query", "instanceUrl", "sessionId"} \ DOMAIN data.d
             IN  IF missing # {} THEN Raise(KeyError(missing))
                 ELSE DoCall(Call("GET",
                                  data.d["instanceUrl"] \o "/services/data/"
                                      \o SALESFORCE_API_VERSION \o "/query/",
                                  BearerHeaders(data.d["sessionId"]),
                                  "q" :> data.d["query"],
                                  NoJson))

proxy_query_end(q, out, jcls) ==
    IF out.tag = "raise"
    THEN IF isinstance(out.exc, "ProxyError") THEN Return(proxy_error_response(out.exc))
         ELSE IF isinstance(out.exc, "RequestException") THEN Return(network_error_response(out.exc))
         ELSE Raise(out.exc)
    ELSE IF out.status_code = 200
    THEN LET result == response_json(out.text, jcls)
         IN  IF result.raised THEN Raise(result.exc)
             ELSE IF JsonType(result.value) # "object" THEN Raise(NoGetAttribute)
             ELSE Return(jsonify_value(result.value))
    ELSE Return(salesforce_api_error(out))

proxy_query_except(e) ==
    IF isinstance(e, "Timeout") THEN Return(jsonify("error" :> "Request timeout", 504))
    ELSE IF isinstance(e, "RequestException")
    THEN Return(jsonify("error" :> ("Request error: " \o e.msg), 500))
    ELSE IF isinstance(e, "Exception")
    THEN Return(jsonify("error" :> ("Internal server error: " \o e.msg), 500))
    ELSE Propagate(e)

(***************************************************************************)
(* POST /api/describe/<object_name>                                        *)
(***************************************************************************)
describe_required == {"instanceUrl", "sessionId"}

proxy_describe_begin(q) ==
    LET data == get_json(q)
    IN  IF data.raised THEN Raise(data.exc)
        ELSE IF Falsy(data)
        THEN Return(jsonify("error" :> "Missing required fields: instanceUrl, sessionId", 400))
        ELSE IF data.tag # "dict" THEN Raise(NotIterable)
        ELSE IF \E k \in describe_required : k \notin DOMAIN data.d
        THEN Return(jsonify("error" :> "Missing required fields: instanceUrl, sessionId", 400))
        ELSE LET missing == {"instanceUrl", "sessionId"} \ DOMAIN data.d
             IN  IF missing # {} THEN Raise(KeyError(missing))
                 ELSE DoCall(Call("GET",
                                  data.d["instanceUrl"] \o "/services/data/"
                                      \o SALESFORCE_API_VERSION \o "/sobjects/"
                                      \o ObjectName \o "/describe/",
                                  BearerHeaders(data.d["sessionId"]),
                                  NoParams,
                                  NoJson))

proxy_describe_end(q, out, jcls) ==
    IF out.tag = "raise"
    THEN IF isinstance(out.exc, "ProxyError") THEN Return(proxy_error_response(out.exc))
         ELSE IF isinstance(out.exc, "RequestException") THEN Return(network_error_response(out.exc))
         ELSE Raise(out.exc)
    ELSE IF out.status_code = 200
    THEN LET result == response_json(out.text, jcls)
         IN  IF result.raised THEN Raise(result.exc)
             ELSE IF JsonType(result.value) # "object" THEN Raise(NoGetAttribute)
             ELSE Return(jsonify_value(result.value))
    ELSE Return(salesforce_api_error(out))

proxy_describe_except(e) ==
    IF isinstance(e, "Timeout") THEN Return(jsonify("error" :> "Request timeout", 504))
    ELSE IF isinstance(e, "RequestException")
    THEN Return(jsonify("error" :> ("Request error: " \o e.msg), 500))
    ELSE IF isinstance(e, "Exception")
    THEN Return(jsonify("error" :> ("Internal server error: " \o e.msg), 500))
    ELSE Propagate(e)

(***************************************************************************)
(* POST /api/sobjects/<object_name>                                        *)
(***************************************************************************)
create_required_without_record_data == {"instanceUrl", "sessionId"}

create_required == {"instanceUrl", "sessionId", "recordData"}

proxy_create_record_begin(q) ==
    LET data == get_json(q)
    IN  IF data.raised THEN Raise(data.exc)
        ELSE IF Falsy(data)
        THEN Return(jsonify("error" :> "Missing required fields: instanceUrl, sessionId, recordData", 400))
        ELSE IF data.tag # "dict" THEN Raise(NotIterable)
        ELSE IF \E k \in create_required : k \notin DOMAIN data.d
        THEN Return(jsonify("error" :> "Missing required fields: instanceUrl, sessionId, recordData", 400))
        ELSE LET missing == {"instanceUrl", "sessionId", "recordData"} \ DOMAIN data.d
             IN  IF missing # {} THEN Raise(KeyError(missing))
                 ELSE DoCall(Call("POST",
                                  data.d["instanceUrl"] \o "/services/data/"
                                      \o SALESFORCE_API_VERSION \o "/sobjects/"
                                      \o ObjectName \o "/",
                                  BearerHeaders(data.d["sessionId"]),
                                  NoParams,
                                  data.d["recordData"]))

proxy_create_record_end(q, out, jcls) ==
    IF out.tag = "raise" THEN Raise(out.exc)
    ELSE IF out.status_code \in {200, 201}
    THEN LET result == response_json(out.text, jcls)
         IN  IF result.raised THEN Raise(result.exc)
             ELSE IF JsonType(result.value) # "object" THEN Raise(NoGetAttribute)
             ELSE Return(jsonify_value(result.value))
    ELSE Return(salesforce_api_error(out))

proxy_create_record_except(e) ==
    IF isinstance(e, "Timeout") THEN Return(jsonify("error" :> "Request timeout", 504))
    ELSE IF isinstance(e, "RequestException")
    THEN Return(jsonify("error" :> ("Request error: " \o e.msg), 500))
    ELSE IF isinstance(e, "Exception")
    THEN Return(jsonify("error" :> ("Internal server error: " \o e.msg), 500))
    ELSE Propagate(e)

(***************************************************************************)
(* GET | PATCH | DELETE /api/sobjects/<object_name>/<record_id>            *)
(***************************************************************************)
record_required == {"instanceUrl", "sessionId"}

\* data.get('recordData') without the default
patch_record_data_none(d) ==
    IF "recordData" \in DOMAIN d THEN d["recordData"] ELSE NoneJson

\* data.get('recordData', {})
patch_record_data(d) ==
    IF "recordData" \in DOMAIN d THEN d["recordData"] ELSE "{}"

proxy_record_operations_begin(q) ==
    LET got == get_json(q)
    IN  IF got.raised THEN Raise(got.exc)
        ELSE LET data == IF Falsy(got)
                         THEN [raised |-> FALSE, tag |-> "dict", d |-> EmptyDict, exc |-> NoExc]
                         ELSE got
             IN  IF data.tag # "dict" THEN Raise(NotIterable)
                 ELSE IF \E k \in record_required : k \notin DOMAIN data.d
                 THEN Return(jsonify("error" :> "Missing required fields: instanceUrl, sessionId", 400))
                 ELSE LET missing == {"instanceUrl", "sessionId"} \ DOMAIN data.d
                          sf_url == data.d["instanceUrl"] \o "/services/data/"
                                        \o SALESFORCE_API_VERSION \o "/sobjects/"
                                        \o ObjectName \o "/" \o RecordId
                          headers == BearerHeaders(data.d["sessionId"])
                      IN  IF missing # {} THEN Raise(KeyError(missing))
                          ELSE IF q.method = "GET"
                          THEN DoCall(Call("GET", sf_url, headers, NoParams, NoJson))
                          ELSE IF q.method = "PATCH"
                          THEN DoCall(Call("PATCH", sf_url, headers, NoParams,
                                           patch_record_data(data.d)))
                          ELSE IF q.method = "DELETE"
                          THEN DoCall(Call("DELETE", sf_url, headers, NoParams, NoJson))
                          ELSE Raise(Exc("UnboundLocalError",
                                         "local variable 'response' referenced before assignment"))

proxy_record_operations_end(q, out, jcls) ==
    IF out.tag = "raise" THEN Raise(out.exc)
    ELSE IF out.status_code \in {200, 204}
    THEN IF out.text # ""
         THEN LET result == response_json(out.text, jcls)
              IN  IF result.raised THEN Raise(result.exc)
                  ELSE Return(jsonify_value(result.value))
         ELSE Return(jsonify("success" :> TRUE, 200))
    ELSE Return(salesforce_api_error(out))

\* The except clauses without the last one, except Exception.
proxy_record_operations_except_no_catch_all(e) ==
    IF isinstance(e, "Timeout") THEN Return(jsonify("error" :> "Request timeout", 504))
    ELSE IF isinstance(e, "RequestException")
    THEN Return(jsonify("error" :> ("Request error: " \o e.msg), 500))
    ELSE Propagate(e)

proxy_record_operations_except(e) ==
    IF isinstance(e, "Timeout") THEN Return(jsonify("error" :> "Request timeout", 504))
    ELSE IF isinstance(e, "RequestException")
    THEN Return(jsonify("error" :> ("Request error: " \o e.msg), 500))
    ELSE IF isinstance(e, "Exception")
    THEN Return(jsonify("error" :> ("Internal server error: " \o e.msg), 500))
    ELSE Propagate(e)

(***************************************************************************)
(* POST /api/proxy                                                         *)
(***************************************************************************)
required_fields == <<"instance_url", "endpoint", "auth_token">>

general_proxy_begin(q) ==
    LET data == get_json(q)
        missing_fields ==
            jsonify("error" :> ("Missing required fields: " \o Join(required_fields, ", ")), 400)
    IN  IF data.raised THEN Raise(data.exc)
        ELSE IF Falsy(data) THEN Return(missing_fields)
        ELSE IF data.tag # "dict" THEN Raise(NotIterable)
        ELSE IF \E i \in 1..Len(required_fields) : required_fields[i] \notin DOMAIN data.d
        THEN Return(missing_fields)
        ELSE LET missing == {"instance_url", "endpoint", "auth_token"} \ DOMAIN data.d
                 given == IF "method" \in DOMAIN data.d THEN data.d["method"] ELSE "GET"
                 body == IF "body" \in DOMAIN data.d THEN data.d["body"] ELSE NoneJson
             IN  IF missing # {} THEN Raise(KeyError(missing))
                 ELSE IF given = NonString
                 THEN Raise(Exc("AttributeError", "'int' object has no attribute 'upper'"))
                 ELSE LET method == upper(given)
                          headers == BearerHeaders(data.d["auth_token"])
                          url == rstrip(data.d["instance_url"], "/") \o data.d["endpoint"]
                      IN  IF method = "GET"
                          THEN DoCall(Call("GET", url, headers, NoParams, NoJson))
                          ELSE IF method = "POST"
                          THEN DoCall(Call("POST", url, headers, NoParams, body))
                          ELSE IF method = "PUT"
                          THEN DoCall(Call("PUT", url, headers, NoParams, body))
                          ELSE IF method = "DELETE"
                          THEN DoCall(Call("DELETE", url, headers, NoParams, NoJson))
                          ELSE Return(jsonify("error" :> ("Unsupported HTTP method: " \o method), 400))

general_proxy_end(q, out, jcls) ==
    IF out.tag = "raise" THEN Raise(out.exc)
    ELSE LET parsed == response_json(out.text, jcls)
         IN  IF out.status_code = 200 \/ out.status_code = 201
             THEN IF ~parsed.raised THEN Return(jsonify_value(parsed.value))
                  ELSE IF isinstance(parsed.exc, "ValueError") THEN Return(text_response(out.text))
                  ELSE Raise(parsed.exc)
             ELSE IF ~parsed.raised
                  THEN Return(jsonify(("error" :> "Salesforce API error")
                                      @@ ("status_code" :> out.status_code)
                                      @@ ("details" :> parsed.value),
                                      out.status_code))
                  ELSE IF isinstance(parsed.exc, "ValueError")
                  THEN Return(jsonify(("error" :> "Salesforce API error")
                                      @@ ("status_code" :> out.status_code)
                                      @@ ("message" :> out.text),
                                      out.status_code))
                  ELSE Raise(parsed.exc)

general_proxy_except(e) ==
    IF isinstance(e, "Timeout") THEN Return(jsonify("error" :> "Request timeout", 408))
    ELSE IF isinstance(e, "RequestException")
    THEN Return(jsonify("error" :> ("Request failed: " \o e.msg), 500))
    ELSE IF isinstance(e, "Exception")
    THEN Return(jsonify("error" :> ("Unexpected error: " \o e.msg), 500))
    ELSE Propagate(e)

(***************************************************************************)
(* Flask's dispatch of a request to the view function of its route.        *)
(***************************************************************************)
view_begin(q) ==
    CASE q.route = "query"    -> proxy_query_begin(q)
      [] q.route = "describe" -> proxy_describe_begin(q)
      [] q.route = "create"   -> proxy_create_record_begin(q)
      [] q.route = "record"   -> proxy_record_operations_begin(q)
      [] q.route = "proxy"    -> general_proxy_begin(q)

view_end(q, out, jcls) ==
    CASE q.route = "query"    -> proxy_query_end(q, out, jcls)
      [] q.route = "describe" -> proxy_describe_end(q, out, jcls)
      [] q.route = "create"   -> proxy_create_record_end(q, out, jcls)
      [] q.route = "record"   -> proxy_record_operations_end(q, out, jcls)
      [] q.route = "proxy"    -> general_proxy_end(q, out, jcls)

view_except(q, e) ==
    CASE q.route = "query"    -> proxy_query_except(e)
      [] q.route = "describe" -> proxy_describe_except(e)
      [] q.route = "create"   -> proxy_create_record_except(e)
      [] q.route = "record"   -> proxy_record_operations_except(e)
      [] q.route = "proxy"    -> general_proxy_except(e)

\* A stretch of the try body, followed by the except clauses when it raised.
Guarded(q, result) ==
    IF result.tag = "raise" THEN view_except(q, result.exc) ELSE result

(***************************************************************************)
(* State machine.                                                          *)
(***************************************************************************)
NoFrame == [data |-> EmptyDict, headers |-> <<>>, url |-> ""]

Init ==
    /\ pc = [w \in Workers |-> "idle"]
    /\ req = [w \in Workers |-> NoRequest]
    /\ frame = [w \in Workers |-> NoFrame]
    /\ calls = [w \in Workers |-> <<>>]
    /\ upstream = [w \in Workers |-> NoOutcome]
    /\ fault = [w \in Workers |-> NoExc]
    /\ resp = [w \in Workers |-> NoResponse]
    /\ uncaught = [w \in Workers |-> FALSE]

\* The handler has ended with `result` (a return, or an exception leaving it):
\* its locals are gone and the client has its response.
Respond(w, result) ==
    /\ pc' = [pc EXCEPT ![w] = "done"]
    /\ frame' = [frame EXCEPT ![w] = NoFrame]
    /\ resp' = [resp EXCEPT ![w] = IF result.tag = "propagate" THEN internal_error
                                    ELSE result.resp]
    /\ uncaught' = [uncaught EXCEPT ![w] = (result.tag = "propagate")]

\* Worker w takes an inbound request and runs its handler up to the outbound
\* call, or to its return when it makes none.
Accept(w, requests) ==
    /\ pc[w] = "idle"
    /\ \E q \in requests :
        LET body == IF q.method = "OPTIONS" THEN Return(handle_preflight) ELSE view_begin(q)
            result == Guarded(q, body)
        IN  /\ req' = [req EXCEPT ![w] = q]
            /\ fault' = [fault EXCEPT ![w] = body.exc]
            /\ IF result.tag = "call"
               THEN /\ pc' = [pc EXCEPT ![w] = "awaiting"]
                    /\ calls' = [calls EXCEPT ![w] = Append(@, result.call)]
                    /\ frame' = [frame EXCEPT ![w] =
                                    [data |-> q.data, headers |-> result.call.headers,
                                     url |-> result.call.url]]
                    /\ UNCHANGED <<resp, uncaught>>
               ELSE /\ Respond(w, result)
                    /\ UNCHANGED calls
    /\ UNCHANGED upstream

\* The outbound call of worker w returns a response or raises; the handler
\* runs to its end.
Reply(w, outcomes) ==
    /\ pc[w] = "awaiting"
    /\ \E out \in outcomes, jcls \in JsonErrorClasses :
        LET body == view_end(req[w], out, jcls)
            result == Guarded(req[w], body)
        IN  /\ upstream' = [upstream EXCEPT ![w] = out]
            /\ fault' = [fault EXCEPT ![w] = body.exc]
            /\ Respond(w, result)
    /\ UNCHANGED <<req, calls>>

\* The client of worker w has read its response; the worker is free again.
Finish(w) ==
    /\ pc[w] = "done"
    /\ pc' = [pc EXCEPT ![w] = "idle"]
    /\ req' = [req EXCEPT ![w] = NoRequest]
    /\ calls' = [calls EXCEPT ![w] = <<>>]
    /\ upstream' = [upstream EXCEPT ![w] = NoOutcome]
    /\ fault' = [fault EXCEPT ![w] = NoExc]
    /\ resp' = [resp EXCEPT ![w] = NoResponse]
    /\ uncaught' = [uncaught EXCEPT ![w] = FALSE]
    /\ UNCHANGED frame

\* One request at a time, over every request and every outcome of the call.
Next ==
    \E w \in SeqWorkers :
        \/ Accept(w, AllRequests)
        \/ Reply(w, AllOutcomes)
        \/ Finish(w)

Spec == Init /\ [][Next]_vars

\* Requests handled concurrently: complete payloads of every route, each with
\* either credential, and one request that lacks its credential.
ConcRequests ==
    {q \in AllRequests :
        /\ q.kind = "object"
        /\ q.method \in {"POST", "PATCH"}
        /\ \/ DOMAIN q.data = PayloadKeys(q.route) \ {"method"}
           \/ q.route = "proxy" /\ DOMAIN q.data = PayloadKeys(q.route)
                                /\ q.data["method"] = "POST"
           \/ q.route = "query" /\ DOMAIN q.data = {"query", "instanceUrl"}
        /\ q.route = "proxy" => q.data["instance_url"] \in InstanceUrls}

ConcOutcomes ==
    {HttpResponse(200, ObjectText), TransportError("ReadTimeout", "Read timed out. (read timeout=30)")}

NextConc ==
    \E w \in Workers :
        \/ Accept(w, ConcRequests)
        \/ Reply(w, ConcOutcomes)
        \/ Finish(w)

SpecConc == Init /\ [][NextConc]_vars

(***************************************************************************)
(* Type invariant.                                                         *)
(***************************************************************************)
TypeOK ==
    /\ pc \in [Workers -> {"idle", "awaiting", "done"}]
    /\ \A w \in Workers :
        /\ pc[w] = "idle" => req[w] = NoRequest /\ calls[w] = <<>> /\ resp[w] = NoResponse
        /\ pc[w] # "idle" => req[w] \in AllRequests
        /\ pc[w] = "awaiting" => Len(calls[w]) = 1 /\ resp[w] = NoResponse
        /\ Len(calls[w]) <= 1

(***************************************************************************)
(* Properties.                                                             *)
(***************************************************************************)
\* The credential field of a route's payload.
CredentialKey(route) == IF route = "proxy" THEN "auth_token" ELSE "sessionId"

\* The fields each route requires, as the specification lists them.
SpecRequired(route) ==
    CASE route = "query"    -> {"query", "instanceUrl", "sessionId"}
      [] route = "describe" -> {"instanceUrl", "sessionId"}
      [] route = "create"   -> {"instanceUrl", "sessionId", "recordData"}
      [] route = "record"   -> {"instanceUrl", "sessionId"}
      [] route = "proxy"    -> {"instance_url", "endpoint", "auth_token"}

SpecRequiredNames(route) ==
    CASE route = "query"    -> "query, instanceUrl, sessionId"
      [] route = "describe" -> "instanceUrl, sessionId"
      [] route = "create"   -> "instanceUrl, sessionId, recordData"
      [] route = "record"   -> "instanceUrl, sessionId"
      [] route = "proxy"    -> "instance_url, endpoint, auth_token"

\* Worker w handles a non-OPTIONS request whose payload is a JSON object (or
\* empty) and lacks a field its route requires.
LacksRequiredField(w) ==
    /\ pc[w] # "idle"
    /\ req[w].method # "OPTIONS"
    /\ req[w].route = "record" => req[w].method \in {"GET", "DELETE"}
    /\ req[w].kind \in {"object", "null"}
    /\ ~(SpecRequired(req[w].route) \subseteq DOMAIN req[w].data)

UpstreamResponded(w) == pc[w] = "done" /\ upstream[w].tag = "response"

\* C2: on every forwarding operation, an upstream 200 or 201 with a valid JSON
\* body is answered 200 with a body equal to that JSON value.
C2_SuccessJsonPassedThrough ==
    \A w \in Workers :
        (/\ UpstreamResponded(w)
         /\ upstream[w].status_code \in {200, 201}
         /\ json_loads(upstream[w].text).ok)
        => /\ resp[w].status = 200
           /\ resp[w].form = "value"
           /\ resp[w].json = json_loads(upstream[w].text).value

\* C3: when the outbound call times out the response has the route's timeout
\* status, 408 on the generic proxy route and 504 on the others, and its body
\* has the key error.
C3_TimeoutStatus ==
    \A w \in Workers :
        (/\ pc[w] = "done"
         /\ upstream[w].tag = "raise"
         /\ isinstance(upstream[w].exc, "Timeout"))
        => /\ resp[w].status = (IF req[w].route = "proxy" THEN 408 ELSE 504)
           /\ resp[w].form = "object"
           /\ "error" \in DOMAIN resp[w].obj

\* C4: on every forwarding operation, an outbound call failing with ProxyError
\* is answered 403 with a body that explains the restriction and gives a
\* remediation hint.
C4_ProxyErrorIs403 ==
    \A w \in Workers :
        (/\ pc[w] = "done"
         /\ upstream[w].tag = "raise"
         /\ isinstance(upstream[w].exc, "ProxyError"))
        => /\ resp[w].status = 403
           /\ resp[w].form = "object"
           /\ {"error", "message", "solution"} \subseteq DOMAIN resp[w].obj

\* The error object carries the upstream body: as details (raw, or parsed when
\* it is JSON) or as message.
IncludesUpstreamBody(obj, text) ==
    \/ /\ "details" \in DOMAIN obj
       /\ \/ obj["details"] = text
          \/ json_loads(text).ok /\ obj["details"] = json_loads(text).value
    \/ /\ "message" \in DOMAIN obj
       /\ obj["message"] = text

\* C5: on every forwarding operation, an upstream status outside 2xx is
\* answered with that same status and an error object that includes the
\* upstream body.
C5_UpstreamErrorPropagated ==
    \A w \in Workers :
        (UpstreamResponded(w) /\ upstream[w].status_code \notin 200..299)
        => /\ resp[w].status = upstream[w].status_code
           /\ resp[w].form = "object"
           /\ "error" \in DOMAIN resp[w].obj
           /\ IncludesUpstreamBody(resp[w].obj, upstream[w].text)

C5_Witness ==
    \E w \in Workers :
        /\ UpstreamResponded(w)
        /\ req[w].route = "create"
        /\ upstream[w].status_code = 404
        /\ upstream[w].text = HtmlText
        /\ resp[w].status = 404
        /\ resp[w].obj["details"] = HtmlText

\* The upstream statuses each operation accepts as success.
SuccessStatuses(route) ==
    CASE route \in {"query", "describe"} -> {200}
      [] route \in {"create", "proxy"}   -> {200, 201}
      [] route = "record"                -> {200, 204}

\* C6: on every forwarding operation, an upstream success status with an empty
\* body is answered 200 with the sentinel {"success": true}.
C6_EmptySuccessBodySentinel ==
    \A w \in Workers :
        (/\ UpstreamResponded(w)
         /\ upstream[w].status_code \in SuccessStatuses(req[w].route)
         /\ upstream[w].text = "")
        => /\ resp[w].status = 200
           /\ resp[w].form = "object"
           /\ resp[w].obj = ("success" :> TRUE)

\* Worker w handles a PATCH on the record route whose payload has instanceUrl
\* and sessionId and no recordData.
PatchWithoutRecordData(w) ==
    /\ pc[w] # "idle"
    /\ req[w].route = "record"
    /\ req[w].method = "PATCH"
    /\ req[w].kind = "object"
    /\ DOMAIN req[w].data = {"instanceUrl", "sessionId"}

\* C7 as claimed: a record PATCH without recordData is rejected with 400 and
\* no outbound PATCH call is made.
C7_PatchWithoutRecordDataRejected ==
    \A w \in Workers :
        PatchWithoutRecordData(w) =>
            /\ pc[w] = "done"
            /\ resp[w].status = 400
            /\ calls[w] = <<>>

\* C7 as amended: a record PATCH without recordData is not rejected by
\* validation; exactly one outbound PATCH call is made, with the empty object
\* {} as its JSON body, and the answer is built from that call's outcome.
C7_PatchWithoutRecordDataForwarded ==
    \A w \in Workers :
        PatchWithoutRecordData(w) =>
            /\ Len(calls[w]) = 1
            /\ calls[w][1].method = "PATCH"
            /\ calls[w][1].json = "{}"
            /\ pc[w] = "done" =>
                /\ upstream[w] # NoOutcome
                /\ ~(/\ resp[w].form = "object"
                     /\ "error" \in DOMAIN resp[w].obj
                     /\ resp[w].obj["error"] = "Missing required fields: instanceUrl, sessionId")

C7_Witness ==
    \E w \in Workers :
        /\ PatchWithoutRecordData(w)
        /\ pc[w] = "done"
        /\ upstream[w] = HttpResponse(204, "")
        /\ calls[w][1].json = "{}"
        /\ resp[w].status = 200

SpecificallyHandled(e) == isinstance(e, "Timeout") \/ isinstance(e, "RequestException")

\* C9: whatever the payload and the outcome of the outbound call, the handler
\* ends with one response carrying an HTTP status code, no exception leaves
\* it, and a fault no specific branch handles is answered 500.
C9_AlwaysOneResponse ==
    \A w \in Workers :
        /\ pc[w] = "done" =>
            /\ resp[w].form \in {"object", "value", "text"}
            /\ resp[w].status \in 100..599
            /\ ~uncaught[w]
            /\ (fault[w] # NoExc /\ ~SpecificallyHandled(fault[w])) => resp[w].status = 500
        /\ pc[w] # "done" => resp[w] = NoResponse /\ ~uncaught[w]

C9_Witness ==
    \E w \in Workers :
        /\ pc[w] = "done"
        /\ req[w].route = "record"
        /\ req[w].method = "HEAD"
        /\ fault[w].cls = "UnboundLocalError"
        /\ resp[w].status = 500
        /\ ~uncaught[w]

\* C10: a generic-proxy request with instance_url, endpoint and auth_token
\* makes exactly one outbound call, with the method the caller supplied (GET
\* when omitted), for each of GET, POST, PUT, PATCH and DELETE.
C10_ProxyMethodForwarded ==
    \A w \in Workers :
        (/\ pc[w] # "idle"
         /\ req[w].route = "proxy"
         /\ req[w].method = "POST"
         /\ req[w].kind = "object"
         /\ {"instance_url", "endpoint", "auth_token"} \subseteq DOMAIN req[w].data
         /\ "method" \in DOMAIN req[w].data =>
                req[w].data["method"] \in {"GET", "POST", "PUT", "PATCH", "DELETE"})
        => /\ Len(calls[w]) = 1
           /\ calls[w][1].method =
                  (IF "method" \in DOMAIN req[w].data THEN req[w].data["method"] ELSE "GET")

====
